---- MODULE Spec2Model ----
(***************************************************************************)
(* A model of src/src/lib.rs: RawVec (the raw buffer), MyVec (the growable *)
(* array), RawValIter (the start/end cursor), MyVecIterator (the owning    *)
(* iterator) and MyDrain (the borrowing drain iterator).                   *)
(*                                                                         *)
(* Memory is modelled slot by slot.  A slot of the heap block holds the    *)
(* bytes last written to it; ptr::read leaves those bytes in place, so a   *)
(* slot beyond the length may hold a stale copy of a value that has been   *)
(* moved out.  Element values are tokens: each token is one object of the  *)
(* element type T, and the model records where every object is (in the     *)
(* caller's hands, or destroyed, and how many times).  A zero-sized T has  *)
(* a single value, Unit, which occupies no storage.                        *)
(***************************************************************************)
EXTENDS Integers, Sequences, FiniteSets

\* ---------------------------------------------------------------- bounds

\* Number of objects of type T the caller owns at the start.
MaxElems == 3

\* Number of pushes of the scenario client.
ScenarioLen == 5

\* Number of objects the client of the large-element arrays owns.
LargeLen == 9

\* Width of the machine word of the model (usize / isize).
WordBits == 16

\* ------------------------------------------------------------- constants

UsizeMax == 2^WordBits - 1
IsizeMax == 2^(WordBits - 1) - 1

\* mem::size_of::<T>() of the sized element type of the model.
ESize == 4

\* The value of a zero-sized type, and the content of a never-written slot.
Unit == 0
Uninit == 0 - 1

\* A null pointer (the allocator's failure result) and the addresses at which
\* the allocator may place a block.
Null == 0
HeapAddrs == {64, 128}

\* The scenario client pushes 1..ScenarioLen and inserts 9.
ScenarioElems == (1..ScenarioLen) \cup {9}

\* Option<T>: None is the empty sequence, Some(x) the sequence <<x>>.
None == << >>
Some(x) == << x >>

VARIABLES
    esize,  \* mem::size_of::<T>(): 0 for a zero-sized T
    pc,     \* "vec"   the MyVec is alive and not borrowed
            \* "drain" a MyDrain borrows the MyVec mutably
            \* "iter"  the MyVec was consumed, a MyVecIterator is alive
            \* "done"  the owner of the buffer has been dropped
            \* "abort" the process was aborted by handle_alloc_error or a panic
    vec,    \* the MyVec: [buf |-> [ptr, cap], len]
    it,     \* the iterator: [buf |-> [ptr, cap], iter |-> [start, end]]
    heap,   \* the allocator: [base |-> address of the live block (or Null),
            \*                 mem |-> its slots, nalloc, nfree]
    hand,   \* token -> number of objects with that token the caller owns
    drops,  \* token -> number of times its destructor has run
    op,     \* name of the last operation
    ret,    \* result of the last operation
    destroyed, \* the objects whose destructor the last operation ran, in order
    snap,   \* contents of the array when the current iterator was created
    outF,   \* what next has yielded since then
    outB    \* what next_back has yielded since then

vars == << esize, pc, vec, it, heap, hand, drops, op, ret, destroyed,
          snap, outF, outB >>

\* ------------------------------------------------------------- helpers

Inc(f, t) == [f EXCEPT ![t] = @ + 1]
Dec(f, t) == [f EXCEPT ![t] = @ - 1]

RECURSIVE IncAll(_, _)
IncAll(f, s) == IF s = << >> THEN f ELSE IncAll(Inc(f, Head(s)), Tail(s))

Reverse(s) == [i \in 1..Len(s) |-> s[Len(s) + 1 - i]]

Count(s, t) == Cardinality({i \in 1..Len(s) : s[i] = t})

\* ---------------------------------------------------------------- memory

\* mem::align_of::<T>() for the types T of size es: a power of two, and the
\* size is a multiple of it (a zero-sized type can have any alignment).
Aligns(es) == {al \in {1, 2, 4, 8} : es % al = 0}

\* NonNull::dangling(): the alignment al of T as an address.
dangling(al) == al

\* p.add(i) / p.offset(i): i elements further.
add(es, p, i) == p + i * es

\* The slot (from 1) of the live block that address p names.
SlotOf(es, h, p) == (p - h.base) \div es + 1

\* ptr::write(p, elem): nothing is stored for a zero-sized T.
ptr_write(es, h, p, elem) ==
    IF es = 0 THEN h ELSE [h EXCEPT !.mem[SlotOf(es, h, p)] = elem]

\* ptr::read(p): a bitwise copy, the slot keeps its bytes.
ptr_read(es, h, p) ==
    IF es = 0 THEN Unit ELSE h.mem[SlotOf(es, h, p)]

\* ptr::copy(src, dst, count): memmove of count elements, overlap allowed.
ptr_copy(es, h, src, dst, count) ==
    IF es = 0 \/ count = 0 THEN h
    ELSE LET s == SlotOf(es, h, src)
             d == SlotOf(es, h, dst)
         IN  [h EXCEPT !.mem =
                [k \in 1..Len(h.mem) |->
                    IF k >= d /\ k < d + count THEN h.mem[k - d + s]
                    ELSE h.mem[k]]]

\* The allocator before any allocation.
NoHeap == [base |-> Null, mem |-> << >>, nalloc |-> 0, nfree |-> 0]

\* A growth that allocates a new block and does not copy the old one.
alloc_fresh(h, a, n) ==
    [h EXCEPT !.base = a,
              !.mem = [i \in 1..n |-> Uninit],
              !.nalloc = @ + 1]

\* alloc::alloc / alloc::realloc answering address a: the block has n slots
\* and keeps the bytes of the old block (realloc copies them).
alloc_realloc(h, a, n) ==
    [h EXCEPT !.base = a,
              !.mem = h.mem \o [i \in 1..(n - Len(h.mem)) |-> Uninit],
              !.nalloc = @ + 1]

\* alloc::dealloc.
dealloc(h) == [h EXCEPT !.base = Null, !.mem = << >>, !.nfree = @ + 1]

\* ---------------------------------------------------------------- RawVec

\* RawVec::new without the case of a zero-sized T.
RawVec_new_cap0(es, al) == [ptr |-> dangling(al), cap |-> 0]

\* RawVec::new for a T of size es and alignment al.
RawVec_new(es, al) ==
    [ptr |-> dangling(al), cap |-> IF es = 0 THEN UsizeMax ELSE 0]

\* The layout check against the unsigned maximum instead of the signed one.
LayoutOk_usize(es, n) == n * es <= UsizeMax

\* Layout::array::<T>(n) is an error when n * size_of::<T>() exceeds
\* isize::MAX (the product is checked, not wrapped), and grow asserts the same
\* bound on the size of the layout.
LayoutOk(es, n) == n * es <= IsizeMax

\* The capacity grow asks for: 1, or 2 * self.cap in the machine word.
new_cap(buf) == IF buf.cap = 0 THEN 1 ELSE (2 * buf.cap) % (UsizeMax + 1)

\* RawVec::grow panics for a zero-sized T and when the new layout is too large.
GrowPanics(es, buf) ==
    \/ es = 0
    \/ ~LayoutOk(es, new_cap(buf))

\* A growth by one element instead of a doubling.
RawVec_grow_by_one(es, buf, h, a) ==
    IF GrowPanics(es, buf)
    THEN [ok |-> FALSE, fail |-> "panic", buf |-> buf, heap |-> h]
    ELSE IF a = Null
    THEN [ok |-> FALSE, fail |-> "abort", buf |-> buf, heap |-> h]
    ELSE [ok |-> TRUE, fail |-> "none",
          buf |-> [ptr |-> a, cap |-> buf.cap + 1],
          heap |-> alloc_realloc(h, a, buf.cap + 1)]

\* RawVec::grow with the allocator answering a (Null: out of memory).
\* ok is FALSE when the call does not return: fail is "panic" for a failed
\* assertion or unwrap, "abort" for handle_alloc_error.
RawVec_grow(es, buf, h, a) ==
    IF GrowPanics(es, buf)
    THEN [ok |-> FALSE, fail |-> "panic", buf |-> buf, heap |-> h]
    ELSE IF a = Null
    THEN [ok |-> FALSE, fail |-> "abort", buf |-> buf, heap |-> h]
    ELSE [ok |-> TRUE, fail |-> "none",
          buf |-> [ptr |-> a, cap |-> new_cap(buf)],
          heap |-> alloc_realloc(h, a, new_cap(buf))]

\* Drop for RawVec.
RawVec_drop(es, buf, h) ==
    IF buf.cap # 0 /\ es # 0 THEN dealloc(h) ELSE h

\* ----------------------------------------------------------------- MyVec

MyVec_new(es, al) == [buf |-> RawVec_new(es, al), len |-> 0]

\* MyVec::grow: grows the buffer only when it is full.
MyVec_grow(es, v, h, a) ==
    IF v.len = v.buf.cap
    THEN RawVec_grow(es, v.buf, h, a)
    ELSE [ok |-> TRUE, fail |-> "none", buf |-> v.buf, heap |-> h]

\* A slice of n elements at p (slice::from_raw_parts), as a sequence.
Slice(es, h, p, n) == [i \in 1..n |-> ptr_read(es, h, add(es, p, i - 1))]

\* A view of the whole buffer, [0, cap).
deref_cap(es, v, h) == Slice(es, h, v.buf.ptr, v.buf.cap)

\* Deref for MyVec: the slice [0, len).
deref(es, v, h) == Slice(es, h, v.buf.ptr, v.len)

\* DerefMut for MyVec: the same slice, writable, as its pointer and length.
deref_mut(es, v) == [ptr |-> v.buf.ptr, len |-> v.len]

\* mem::replace(&mut v[i], elem) with i in the bounds of the mutable slice:
\* elem is written at position i and the value that was there is returned.
replace_at(es, v, h, i, elem) ==
    LET s == deref_mut(es, v)
        p == add(es, s.ptr, i)
    IN  [vec |-> v,
         heap |-> ptr_write(es, h, p, elem),
         ret |-> Some(ptr_read(es, h, p))]

\* push that forgets to increment the length.
push_keeps_len(es, v, h, elem, a) ==
    LET g == MyVec_grow(es, v, h, a)
    IN  IF ~g.ok
        THEN [ok |-> FALSE, fail |-> g.fail, vec |-> v, heap |-> h, ret |-> None]
        ELSE [ok |-> TRUE, fail |-> "none",
              vec |-> [buf |-> g.buf, len |-> v.len],
              heap |-> ptr_write(es, g.heap, add(es, g.buf.ptr, v.len), elem),
              ret |-> None]

push(es, v, h, elem, a) ==
    LET g == MyVec_grow(es, v, h, a)
    IN  IF ~g.ok
        THEN [ok |-> FALSE, fail |-> g.fail, vec |-> v, heap |-> h, ret |-> None]
        ELSE [ok |-> TRUE, fail |-> "none",
              vec |-> [buf |-> g.buf, len |-> v.len + 1],
              heap |-> ptr_write(es, g.heap, add(es, g.buf.ptr, v.len), elem),
              ret |-> None]

pop(es, v, h) ==
    IF v.len = 0
    THEN [ok |-> TRUE, fail |-> "none", vec |-> v, heap |-> h, ret |-> None]
    ELSE [ok |-> TRUE, fail |-> "none",
          vec |-> [v EXCEPT !.len = @ - 1],
          heap |-> h,
          ret |-> Some(ptr_read(es, h, add(es, v.buf.ptr, v.len - 1)))]

\* insert that grows the buffer before it checks the index.
insert_grows_first(es, v, h, idx, elem, a) ==
    LET g == MyVec_grow(es, v, h, a)
        p == g.buf.ptr
    IN  IF ~g.ok
        THEN [ok |-> FALSE, fail |-> g.fail, vec |-> v, heap |-> h, ret |-> None]
        ELSE IF ~(idx <= v.len)
        THEN [ok |-> FALSE, fail |-> "oob",
              vec |-> [buf |-> g.buf, len |-> v.len], heap |-> g.heap,
              ret |-> None]
        ELSE [ok |-> TRUE, fail |-> "none",
              vec |-> [buf |-> g.buf, len |-> v.len + 1],
              heap |-> ptr_write(es,
                          ptr_copy(es, g.heap, add(es, p, idx),
                                   add(es, p, idx + 1), v.len - idx),
                          add(es, p, idx), elem),
              ret |-> None]

\* insert that writes the element without shifting the suffix.
insert_no_shift(es, v, h, idx, elem, a) ==
    LET g == MyVec_grow(es, v, h, a)
        p == g.buf.ptr
    IN  IF ~(idx <= v.len)
        THEN [ok |-> FALSE, fail |-> "oob", vec |-> v, heap |-> h, ret |-> None]
        ELSE IF ~g.ok
        THEN [ok |-> FALSE, fail |-> g.fail, vec |-> v, heap |-> h, ret |-> None]
        ELSE [ok |-> TRUE, fail |-> "none",
              vec |-> [buf |-> g.buf, len |-> v.len + 1],
              heap |-> ptr_write(es, g.heap, add(es, p, idx), elem),
              ret |-> None]

insert(es, v, h, idx, elem, a) ==
    LET g == MyVec_grow(es, v, h, a)
        p == g.buf.ptr
    IN  IF ~(idx <= v.len)
        THEN [ok |-> FALSE, fail |-> "oob", vec |-> v, heap |-> h, ret |-> None]
        ELSE IF ~g.ok
        THEN [ok |-> FALSE, fail |-> g.fail, vec |-> v, heap |-> h, ret |-> None]
        ELSE [ok |-> TRUE, fail |-> "none",
              vec |-> [buf |-> g.buf, len |-> v.len + 1],
              heap |-> ptr_write(es,
                          ptr_copy(es, g.heap, add(es, p, idx),
                                   add(es, p, idx + 1), v.len - idx),
                          add(es, p, idx), elem),
              ret |-> None]

\* remove that shrinks the capacity to the new length.
remove_shrinks(es, v, h, idx) ==
    LET p == v.buf.ptr
    IN  IF ~(idx < v.len)
        THEN [ok |-> FALSE, fail |-> "oob", vec |-> v, heap |-> h, ret |-> None]
        ELSE [ok |-> TRUE, fail |-> "none",
              vec |-> [buf |-> [v.buf EXCEPT !.cap = v.len - 1],
                       len |-> v.len - 1],
              heap |-> ptr_copy(es, h, add(es, p, idx + 1), add(es, p, idx),
                                v.len - 1 - idx),
              ret |-> Some(ptr_read(es, h, add(es, p, idx)))]

\* remove that forgets to shift the suffix.
remove_no_shift(es, v, h, idx) ==
    LET p == v.buf.ptr
    IN  IF ~(idx < v.len)
        THEN [ok |-> FALSE, fail |-> "oob", vec |-> v, heap |-> h, ret |-> None]
        ELSE [ok |-> TRUE, fail |-> "none",
              vec |-> [v EXCEPT !.len = @ - 1],
              heap |-> h,
              ret |-> Some(ptr_read(es, h, add(es, p, idx)))]

\* remove that forgets to decrement the length.
remove_keeps_len(es, v, h, idx) ==
    LET p == v.buf.ptr
    IN  IF ~(idx < v.len)
        THEN [ok |-> FALSE, fail |-> "oob", vec |-> v, heap |-> h, ret |-> None]
        ELSE [ok |-> TRUE, fail |-> "none",
              vec |-> v,
              heap |-> ptr_copy(es, h, add(es, p, idx + 1), add(es, p, idx),
                                (v.len - 1) - idx),
              ret |-> Some(ptr_read(es, h, add(es, p, idx)))]

remove(es, v, h, idx) ==
    LET p == v.buf.ptr
    IN  IF ~(idx < v.len)
        THEN [ok |-> FALSE, fail |-> "oob", vec |-> v, heap |-> h, ret |-> None]
        ELSE [ok |-> TRUE, fail |-> "none",
              vec |-> [v EXCEPT !.len = @ - 1],
              heap |-> ptr_copy(es, h, add(es, p, idx + 1), add(es, p, idx),
                                (v.len - 1) - idx),
              ret |-> Some(ptr_read(es, h, add(es, p, idx)))]

\* A MyVec without a Drop of its own: only the field buf is dropped.
MyVec_drop_buf_only(es, v, h, d) ==
    [vec |-> v, heap |-> RawVec_drop(es, v.buf, h), destroyed |-> d]

\* Drop for MyVec: pops and destroys every element, then the buffer is
\* dropped.  d is the sequence of objects destroyed so far.
RECURSIVE MyVec_drop(_, _, _, _)
MyVec_drop(es, v, h, d) ==
    LET r == pop(es, v, h)
    IN  IF r.ret = None
        THEN [vec |-> r.vec, heap |-> RawVec_drop(es, v.buf, h), destroyed |-> d]
        ELSE MyVec_drop(es, r.vec, r.heap, d \o r.ret)

\* ------------------------------------------------------------ RawValIter

RawValIter_new(es, p, n) ==
    [start |-> p,
     end   |-> IF es = 0 THEN p + n
               ELSE IF n = 0 THEN p
               ELSE add(es, p, n)]

\* next that forgets where the cursor was once the range is empty.
next_resets_cursor(es, iter, h) ==
    IF iter.start = iter.end
    THEN [iter |-> [start |-> Null, end |-> Null], ret |-> None]
    ELSE IF es = 0
         THEN [iter |-> [iter EXCEPT !.start = @ + 1], ret |-> Some(Unit)]
         ELSE [iter |-> [iter EXCEPT !.start = add(es, @, 1)],
               ret |-> Some(ptr_read(es, h, iter.start))]

next(es, iter, h) ==
    IF iter.start = iter.end
    THEN [iter |-> iter, ret |-> None]
    ELSE IF es = 0
         THEN [iter |-> [iter EXCEPT !.start = @ + 1], ret |-> Some(Unit)]
         ELSE [iter |-> [iter EXCEPT !.start = add(es, @, 1)],
               ret |-> Some(ptr_read(es, h, iter.start))]

\* next_back that reads the front element.
next_back_reads_front(es, iter, h) ==
    IF iter.start = iter.end
    THEN [iter |-> iter, ret |-> None]
    ELSE IF es = 0
         THEN [iter |-> [iter EXCEPT !.end = @ - 1], ret |-> Some(Unit)]
         ELSE [iter |-> [iter EXCEPT !.end = add(es, @, 0 - 1)],
               ret |-> Some(ptr_read(es, h, iter.start))]

next_back(es, iter, h) ==
    IF iter.start = iter.end
    THEN [iter |-> iter, ret |-> None]
    ELSE IF es = 0
         THEN [iter |-> [iter EXCEPT !.end = @ - 1], ret |-> Some(Unit)]
         ELSE [iter |-> [iter EXCEPT !.end = add(es, @, 0 - 1)],
               ret |-> Some(ptr_read(es, h, add(es, iter.end, 0 - 1)))]

\* size_hint that gives the distance in bytes.
size_hint_bytes(es, iter) ==
    LET len == iter.end - iter.start
    IN  << len, Some(len) >>

\* RawValIter::size_hint: the lower bound and the upper bound.
size_hint(es, iter) ==
    LET len == (iter.end - iter.start) \div (IF es = 0 THEN 1 ELSE es)
    IN  << len, Some(len) >>

\* for _ in &mut *self {}: takes and destroys every remaining element.
RECURSIVE exhaust(_, _, _, _)
exhaust(es, iter, h, d) ==
    LET r == next(es, iter, h)
    IN  IF r.ret = None
        THEN [iter |-> r.iter, destroyed |-> d]
        ELSE exhaust(es, r.iter, h, d \o r.ret)

\* ----------------------------------------------- MyVecIterator / MyDrain

\* The RawVec of a value that owns none (a MyDrain, a consumed MyVec).
NoBuf == [ptr |-> Null, cap |-> 0]
NoIter == [buf |-> NoBuf, iter |-> [start |-> Null, end |-> Null]]
Moved == [buf |-> NoBuf, len |-> 0]

\* IntoIterator for MyVec: the cursor over the slice, the buffer moved.
into_iter(es, v, h) ==
    [buf |-> v.buf, iter |-> RawValIter_new(es, v.buf.ptr, Len(deref(es, v, h)))]

\* drain that takes the buffer away from the array.
drain_takes_buf(es, v, h) ==
    [vec |-> MyVec_new(es, 1),
     it  |-> [buf |-> NoBuf,
              iter |-> RawValIter_new(es, v.buf.ptr, Len(deref(es, v, h)))]]

\* MyVec::drain: the cursor over the slice, then the length set to 0.
drain(es, v, h) ==
    [vec |-> [v EXCEPT !.len = 0],
     it  |-> [buf |-> NoBuf,
              iter |-> RawValIter_new(es, v.buf.ptr, Len(deref(es, v, h)))]]

\* A MyVecIterator without a Drop of its own: only the field _buf is dropped.
MyVecIterator_drop_buf_only(es, i, h) ==
    [it |-> i, heap |-> RawVec_drop(es, i.buf, h), destroyed |-> << >>]

\* Drop for MyVecIterator: the remaining elements, then the field _buf.
MyVecIterator_drop(es, i, h) ==
    LET e == exhaust(es, i.iter, h, << >>)
    IN  [it |-> [i EXCEPT !.iter = e.iter],
         heap |-> RawVec_drop(es, i.buf, h),
         destroyed |-> e.destroyed]

\* A MyDrain that releases the buffer it iterates over.
MyDrain_drop_frees(es, i, h) ==
    LET e == exhaust(es, i.iter, h, << >>)
    IN  [it |-> [i EXCEPT !.iter = e.iter],
         heap |-> dealloc(h),
         destroyed |-> e.destroyed]

\* A MyDrain without a Drop: the remaining elements are leaked.
MyDrain_drop_leaks(es, i, h) ==
    [it |-> i, heap |-> h, destroyed |-> << >>]

\* Drop for MyDrain: the remaining elements; a MyDrain owns no buffer.
MyDrain_drop(es, i, h) ==
    LET e == exhaust(es, i.iter, h, << >>)
    IN  [it |-> [i EXCEPT !.iter = e.iter],
         heap |-> h,
         destroyed |-> e.destroyed]

\* The elements an iterator has not yielded yet, front to back.
Remaining(es, i, h) == Slice(es, h, i.iter.start, size_hint(es, i.iter)[1])

\* ------------------------------------------------------------ the system

\* The objects of the caller: distinct tokens for a sized T, MaxElems
\* indistinguishable units for a zero-sized T.
Tokens(es) == IF es = 0 THEN {Unit} ELSE 1..MaxElems

InitWith(es, al, toks, n) ==
    /\ esize = es
    /\ pc = "vec"
    /\ vec = MyVec_new(es, al)
    /\ it = NoIter
    /\ heap = NoHeap
    /\ hand = [t \in toks \cup {Uninit} |-> IF t = Uninit THEN 0 ELSE n]
    /\ drops = [t \in toks \cup {Uninit} |-> 0]
    /\ op = "new"
    /\ ret = None
    /\ destroyed = << >>
    /\ snap = << >>
    /\ outF = << >>
    /\ outB = << >>

Init ==
    \E es \in {0, ESize} : \E al \in Aligns(es) :
        InitWith(es, al, Tokens(es), IF es = 0 THEN MaxElems ELSE 1)

Owned == {t \in DOMAIN hand : hand[t] > 0}

\* The out-of-bounds indices a caller passes to insert and remove: the first
\* one (len for remove, len + 1 for insert) and one far beyond the end.
OobIdx == {vec.len, vec.len + 1, MaxElems + 1}

\* What the allocator may answer to the next push or insert: an address or
\* Null if the buffer is full and must grow; it is not called otherwise.
Answers == IF vec.len = vec.buf.cap THEN HeapAddrs \cup {Null} ELSE {Null}

\* The caller receives the result of an operation.
Receive(r) == IF r = None THEN hand ELSE Inc(hand, r[1])

NoHistory ==
    /\ snap' = << >>
    /\ outF' = << >>
    /\ outB' = << >>

\* A call that took elem by value and does not return.  handle_alloc_error
\* aborts the process.  A panic unwinds: the argument is destroyed, the array
\* is as the call left it, and the unwinding goes on to destroy the array.
Fails(r, name, elem) ==
    /\ vec' = r.vec
    /\ heap' = r.heap
    /\ ret' = None
    /\ IF r.fail = "abort"
       THEN /\ pc' = "abort"
            /\ op' = name
            /\ destroyed' = << >>
            /\ UNCHANGED << hand, drops >>
       ELSE /\ pc' = "unwind"
            /\ op' = name \o "_" \o r.fail
            /\ hand' = Dec(hand, elem)
            /\ drops' = Inc(drops, elem)
            /\ destroyed' = << elem >>

\* v.push(elem), the allocator answering a if the buffer grows.
Push(elem, a) ==
    /\ pc = "vec"
    /\ LET r == push(esize, vec, heap, elem, a)
       IN  IF r.ok
           THEN /\ vec' = r.vec
                /\ heap' = r.heap
                /\ hand' = Dec(hand, elem)
                /\ pc' = pc
                /\ op' = "push"
                /\ ret' = None
                /\ destroyed' = << >>
                /\ drops' = drops
           ELSE Fails(r, "push", elem)
    /\ NoHistory
    /\ UNCHANGED << esize, it >>

\* v.pop()
Pop ==
    /\ pc = "vec"
    /\ LET r == pop(esize, vec, heap)
       IN  /\ vec' = r.vec
           /\ heap' = r.heap
           /\ ret' = r.ret
           /\ hand' = Receive(r.ret)
    /\ op' = "pop"
    /\ destroyed' = << >>
    /\ NoHistory
    /\ UNCHANGED << esize, pc, it, drops >>

\* std::mem::replace(&mut v[i], elem), a write through deref_mut
Write(i, elem) ==
    /\ pc = "vec"
    /\ i < deref_mut(esize, vec).len
    /\ LET r == replace_at(esize, vec, heap, i, elem)
       IN  /\ vec' = r.vec
           /\ heap' = r.heap
           /\ ret' = r.ret
           /\ hand' = Inc(Dec(hand, elem), r.ret[1])
    /\ op' = "write"
    /\ destroyed' = << >>
    /\ NoHistory
    /\ UNCHANGED << esize, pc, it, drops >>

\* v.insert(idx, elem), whatever the index
insert_call(idx, elem, a) ==
    /\ pc = "vec"
    /\ LET r == insert(esize, vec, heap, idx, elem, a)
       IN  IF r.ok
           THEN /\ vec' = r.vec
                /\ heap' = r.heap
                /\ hand' = Dec(hand, elem)
                /\ pc' = pc
                /\ op' = "insert"
                /\ ret' = None
                /\ destroyed' = << >>
                /\ drops' = drops
           ELSE Fails(r, "insert", elem)
    /\ NoHistory
    /\ UNCHANGED << esize, it >>

\* v.insert(idx, elem) with idx <= len
Insert(idx, elem, a) ==
    /\ idx <= vec.len
    /\ insert_call(idx, elem, a)

\* v.insert(idx, elem) with idx > len
InsertOob(idx, elem, a) ==
    /\ idx > vec.len
    /\ insert_call(idx, elem, a)

\* v.remove(idx), whatever the index.  A failed assertion unwinds; nothing
\* was passed by value and nothing is returned.
remove_call(idx) ==
    /\ pc = "vec"
    /\ LET r == remove(esize, vec, heap, idx)
       IN  /\ vec' = r.vec
           /\ heap' = r.heap
           /\ ret' = r.ret
           /\ hand' = Receive(r.ret)
           /\ pc' = IF r.ok THEN pc ELSE "unwind"
           /\ op' = IF r.ok THEN "remove" ELSE "remove_" \o r.fail
    /\ destroyed' = << >>
    /\ NoHistory
    /\ UNCHANGED << esize, it, drops >>

\* v.remove(idx) with idx < len
Remove(idx) ==
    /\ idx < vec.len
    /\ remove_call(idx)

\* v.remove(idx) with idx >= len
RemoveOob(idx) ==
    /\ idx >= vec.len
    /\ remove_call(idx)

\* drop(v), at the end of its scope or while a panic unwinds
VecDrop ==
    /\ pc \in {"vec", "unwind"}
    /\ LET r == MyVec_drop(esize, vec, heap, << >>)
       IN  /\ vec' = r.vec
           /\ heap' = r.heap
           /\ destroyed' = r.destroyed
           /\ drops' = IncAll(drops, r.destroyed)
    /\ pc' = "done"
    /\ op' = "vec_drop"
    /\ ret' = None
    /\ NoHistory
    /\ UNCHANGED << esize, it, hand >>

\* v.into_iter(): the MyVec is consumed and forgotten.
IntoIter ==
    /\ pc = "vec"
    /\ it' = into_iter(esize, vec, heap)
    /\ vec' = Moved
    /\ pc' = "iter"
    /\ op' = "into_iter"
    /\ ret' = None
    /\ destroyed' = << >>
    /\ snap' = deref(esize, vec, heap)
    /\ outF' = << >>
    /\ outB' = << >>
    /\ UNCHANGED << esize, heap, hand, drops >>

\* v.drain(): the MyVec stays borrowed while the MyDrain lives.
Drain ==
    /\ pc = "vec"
    /\ LET r == drain(esize, vec, heap)
       IN  /\ vec' = r.vec
           /\ it' = r.it
    /\ pc' = "drain"
    /\ op' = "drain"
    /\ ret' = None
    /\ destroyed' = << >>
    /\ snap' = deref(esize, vec, heap)
    /\ outF' = << >>
    /\ outB' = << >>
    /\ UNCHANGED << esize, heap, hand, drops >>

\* next / next_back of whichever of the two iterators is alive, which both
\* forward to the RawValIter.
Step(r, name, front) ==
    /\ it' = [it EXCEPT !.iter = r.iter]
    /\ ret' = r.ret
    /\ hand' = Receive(r.ret)
    /\ outF' = IF front THEN outF \o r.ret ELSE outF
    /\ outB' = IF front THEN outB ELSE outB \o r.ret
    /\ op' = name
    /\ destroyed' = << >>
    /\ UNCHANGED << esize, pc, vec, heap, drops, snap >>

\* MyVecIterator::next
IterNext ==
    /\ pc = "iter"
    /\ Step(next(esize, it.iter, heap), "next", TRUE)

\* MyVecIterator::next_back
IterNextBack ==
    /\ pc = "iter"
    /\ Step(next_back(esize, it.iter, heap), "next_back", FALSE)

\* MyDrain::next
DrainNext ==
    /\ pc = "drain"
    /\ Step(next(esize, it.iter, heap), "next", TRUE)

\* MyDrain::next_back
DrainNextBack ==
    /\ pc = "drain"
    /\ Step(next_back(esize, it.iter, heap), "next_back", FALSE)

\* drop(iter) of a MyVecIterator
IterDrop ==
    /\ pc = "iter"
    /\ LET r == MyVecIterator_drop(esize, it, heap)
       IN  /\ it' = r.it
           /\ heap' = r.heap
           /\ destroyed' = r.destroyed
           /\ drops' = IncAll(drops, r.destroyed)
    /\ pc' = "done"
    /\ op' = "iter_drop"
    /\ ret' = None
    /\ UNCHANGED << esize, vec, hand, snap, outF, outB >>

\* drop(drain) of a MyDrain: the borrow of the MyVec ends.
DrainDrop ==
    /\ pc = "drain"
    /\ LET r == MyDrain_drop(esize, it, heap)
       IN  /\ it' = r.it
           /\ heap' = r.heap
           /\ destroyed' = r.destroyed
           /\ drops' = IncAll(drops, r.destroyed)
    /\ pc' = "vec"
    /\ op' = "drain_drop"
    /\ ret' = None
    /\ UNCHANGED << esize, vec, hand, snap, outF, outB >>

Next ==
    \/ \E elem \in Owned, a \in Answers : Push(elem, a)
    \/ Pop
    \/ \E idx \in 0..vec.len, elem \in Owned, a \in Answers :
            Insert(idx, elem, a)
    \/ \E idx \in 0..(vec.len - 1) : Remove(idx)
    \/ \E idx \in OobIdx, elem \in Owned, a \in Answers :
            InsertOob(idx, elem, a)
    \/ \E idx \in OobIdx : RemoveOob(idx)
    \/ \E i \in 0..(vec.len - 1), elem \in Owned : Write(i, elem)
    \/ VecDrop
    \/ IntoIter
    \/ Drain
    \/ IterNext
    \/ IterNextBack
    \/ DrainNext
    \/ DrainNextBack
    \/ IterDrop
    \/ DrainDrop

Spec == Init /\ [][Next]_vars

\* ---------------------------------------------------- the scenario client

\* The client of the scenario of the specification and of the test
\* create_push_pop, for a sized T: it pushes 1, 2, ... in this order (at most
\* ScenarioLen of them), then removes at indices of its choice, inserts 9 at
\* an index of its choice, and pops.  push 1,2,3,4,5; remove(2); insert(0, 9);
\* pop() is one of its runs.
InitScenario == \E al \in Aligns(ESize) : InitWith(ESize, al, ScenarioElems, 1)

ScenPush(a) ==
    /\ op \in {"new", "push"}
    /\ vec.len < ScenarioLen
    /\ Push(vec.len + 1, a)

ScenRemove(idx) ==
    /\ op \in {"push", "remove"}
    /\ Remove(idx)

ScenInsert(idx, a) ==
    /\ op \in {"push", "remove"}
    /\ hand[9] > 0
    /\ Insert(idx, 9, a)

ScenPop ==
    /\ op \in {"insert", "pop"}
    /\ Pop

NextScenario ==
    \/ \E a \in Answers : ScenPush(a)
    \/ \E idx \in 0..(vec.len - 1) : ScenRemove(idx)
    \/ \E idx \in 0..vec.len, a \in Answers : ScenInsert(idx, a)
    \/ ScenPop

SpecScenario == InitScenario /\ [][NextScenario]_vars

\* ------------------------------------------- arrays of large elements

\* Element sizes so large that a few doublings reach the limit of
\* isize::MAX bytes: the largest possible size, sizes around half of it,
\* powers of two and sizes that are not.
LargeSizes ==
    {IsizeMax, IsizeMax \div 2, IsizeMax \div 2 + 1,
     2 ^ (WordBits - 3), 3 * 2 ^ (WordBits - 5),
     2 ^ (WordBits - 4), 2 ^ (WordBits - 4) - 1}

\* The client with LargeLen objects of such a type (all alike, token 1): it
\* pushes, inserts and pops them and destroys the array.
InitLarge ==
    \E es \in LargeSizes : \E al \in Aligns(es) :
        InitWith(es, al, {1}, LargeLen)

NextLarge ==
    \/ \E elem \in Owned, a \in Answers : Push(elem, a)
    \/ \E idx \in 0..vec.len, elem \in Owned, a \in Answers :
            Insert(idx, elem, a)
    \/ Pop
    \/ VecDrop

SpecLarge == InitLarge /\ [][NextLarge]_vars

\* ------------------------------------------------------------ properties

\* Any push the caller could make now.
PushAny == \E elem \in Owned, a \in Answers : Push(elem, a)

\* The contents of the array, and what the live iterator has yet to yield.
Contents == deref(esize, vec, heap)
Pending == IF pc \in {"drain", "iter"} THEN Remaining(esize, it, heap) ELSE << >>

\* How many objects of each token exist.
Supply == IF esize = 0 THEN MaxElems ELSE 1

\* Every object is in exactly one place: owned by the caller, destroyed
\* (once), in the array or pending in the iterator; and no never-written
\* slot was ever handed out or destroyed as if it were an object.
Conserved ==
    \A t \in DOMAIN hand :
        /\ hand[t] >= 0
        /\ hand[t] + drops[t] + Count(Contents, t) + Count(Pending, t)
             = IF t = Uninit THEN 0 ELSE Supply

\* The part of the snapshot that neither next nor next_back has yielded.
Unyielded == SubSeq(snap, Len(outF) + 1, Len(snap) - Len(outB))

\* C1: dropping the owning iterator after any interleaving of next and
\* next_back destroys exactly the elements not yet yielded, each once and no
\* yielded one, so that yielded + destroyed on drop = the elements the array
\* held.
C1_OwningDropDestroysUnyielded ==
    op = "iter_drop" =>
        /\ destroyed = Unyielded
        /\ Len(outF) + Len(outB) + Len(destroyed) = Len(snap)
        /\ Conserved
        /\ esize # 0 =>
             /\ \A i \in 1..Len(destroyed) : drops[destroyed[i]] = 1
             /\ \A i \in 1..Len(outF) : drops[outF[i]] = 0
             /\ \A i \in 1..Len(outB) : drops[outB[i]] = 0

\* Three elements, one next and one next_back taken, the drop destroys one.
C1_Witness ==
    /\ op = "iter_drop"
    /\ Len(snap) = 3
    /\ Len(outF) = 1
    /\ Len(outB) = 1
    /\ Len(destroyed) = 1

\* C2 as stated: while a drain iterator is alive and not exhausted, the
\* source array has length 0 and accepts a push.  The code does not allow
\* it: drain takes &mut self and MyDrain<'a, T> keeps that exclusive borrow
\* (PhantomData<&'a mut MyVec<T>>) until it is dropped, so that no push on
\* the array can be made while the drain iterator is alive.
C2_PushAcceptedWhileDraining ==
    (pc = "drain" /\ Pending # << >> /\ Owned # {}) =>
        (vec.len = 0 /\ ENABLED PushAny)

\* A drain iterator over three elements that has yielded one of them.
C2_Witness ==
    /\ pc = "drain"
    /\ Len(snap) = 3
    /\ Len(outF) = 1
    /\ Len(Pending) = 2
    /\ vec.len = 0
    /\ Owned # {}

\* C3: the drop of a drain iterator destroys every element of the drain that
\* was not yielded, once, and the source array never destroys any of them
\* again, whether it is used or destroyed afterwards: no object is leaked or
\* destroyed twice.
C3_DrainDropDestroysOnce ==
    /\ op = "drain_drop" =>
         /\ destroyed = Unyielded
         /\ it.iter.start = it.iter.end
         /\ vec.len = 0
    /\ Conserved
    /\ \A t \in DOMAIN drops : drops[t] <= Supply

\* The array has been destroyed after a drain whose drop destroyed two
\* elements and from which one was taken: its own drop destroys nothing.
C3_Witness ==
    /\ esize # 0
    /\ op = "vec_drop"
    /\ destroyed = << >>
    /\ heap.nfree = 1
    /\ Cardinality({t \in DOMAIN drops : drops[t] = 1}) = 2
    /\ Cardinality({t \in DOMAIN hand : hand[t] = 1}) = 1

\* C4: the owning iterator yields the elements of the array once each: next
\* in ascending order from the front, next_back in descending order from the
\* back, never more than the array held, and it answers None only when all
\* of them have been yielded.
C4_OwningIterYieldsEachOnce ==
    (pc = "iter" \/ op = "iter_drop") =>
        /\ Len(outF) + Len(outB) <= Len(snap)
        /\ outF = SubSeq(snap, 1, Len(outF))
        /\ Reverse(outB) = SubSeq(snap, Len(snap) - Len(outB) + 1, Len(snap))
        /\ pc = "iter" => outF \o Pending \o Reverse(outB) = snap
        /\ (op \in {"next", "next_back"} /\ ret = None) =>
              Len(outF) + Len(outB) = Len(snap)
        /\ (op \in {"next", "next_back"} /\ ret # None) =>
              ret = (IF op = "next" THEN << outF[Len(outF)] >>
                                    ELSE << outB[Len(outB)] >>)

\* A complete traversal of three elements, next and next_back interleaved,
\* followed by a None.
C4_Witness ==
    /\ pc = "iter"
    /\ Len(snap) = 3
    /\ Len(outF) = 2
    /\ Len(outB) = 1
    /\ ret = None

\* C5: a push that returns adds the pushed value at the end of the slice and
\* leaves the values already stored in place, whether or not the buffer
\* grows; so n pushes on a new array give length n and the values in push
\* order.
C5_PushAppends ==
    [][\A elem \in Owned, a \in Answers :
          (pc' = "vec" /\ op' = "push" /\ Push(elem, a)) =>
              /\ vec'.len = vec.len + 1
              /\ deref(esize', vec', heap') = Append(Contents, elem)]_vars

\* Three pushes, the third after the second growth of the buffer.
C5_Witness ==
    /\ op = "push"
    /\ pc = "vec"
    /\ vec.len = 3
    /\ vec.buf.cap = 4
    /\ heap.nalloc = 3
    /\ esize # 0

\* C6: 0 <= len <= cap; the slots [0, len) hold live objects, each of them
\* one the array alone owns (the caller does not own it, it has not been
\* destroyed, no other slot of the prefix holds it); no object is owned
\* through a slot of [len, cap).
C6_LenCapAndLiveness ==
    pc \in {"vec", "drain"} =>
        /\ 0 <= vec.len
        /\ vec.len <= vec.buf.cap
        /\ esize # 0 =>
             /\ Len(heap.mem) = vec.buf.cap
             /\ \A i \in 1..vec.len :
                  /\ Contents[i] # Uninit
                  /\ hand[Contents[i]] = 0
                  /\ drops[Contents[i]] = 0
                  /\ \A j \in 1..vec.len : Contents[j] = Contents[i] => j = i
        /\ Conserved

\* An array of length 1 and capacity 4 whose slots beyond the length hold
\* stale bytes, after pushes, a remove and a pop.
C6_Witness ==
    /\ pc = "vec"
    /\ esize # 0
    /\ vec.len = 1
    /\ vec.buf.cap = 4
    /\ heap.mem[2] # Uninit
    /\ heap.mem[3] # Uninit
    /\ op = "remove"

\* s without its element at position i (from 1), and s with x put at
\* position i.
DeleteAt(s, i) == SubSeq(s, 1, i - 1) \o SubSeq(s, i + 1, Len(s))
InsertAt(s, i, x) == SubSeq(s, 1, i - 1) \o << x >> \o SubSeq(s, i, Len(s))

\* C7: remove(i) returns s[i] and leaves s[0..i) followed by s(i..len), the
\* length one less; insert(i, v) leaves s[0..i), v, s[i..len), the length one
\* more; pop returns the last element.  In the scenario: after pushing
\* 1,2,3,4,5, remove(2) returns 3 and leaves [1,2,4,5], insert(0, 9) gives
\* [9,1,2,4,5], and pop() returns 5 and leaves [9,1,2,4].
C7_RemoveInsertShift ==
    [][/\ \A idx \in 0..(vec.len - 1) :
             Remove(idx) =>
                /\ ret' = Some(Contents[idx + 1])
                /\ deref(esize', vec', heap') = DeleteAt(Contents, idx + 1)
                /\ vec'.len = vec.len - 1
       /\ \A idx \in 0..vec.len, elem \in Owned, a \in Answers :
             (Insert(idx, elem, a) /\ pc' = "vec") =>
                /\ deref(esize', vec', heap') = InsertAt(Contents, idx + 1, elem)
                /\ vec'.len = vec.len + 1
       /\ (Pop /\ vec.len > 0) =>
                /\ ret' = Some(Contents[vec.len])
                /\ deref(esize', vec', heap') = SubSeq(Contents, 1, vec.len - 1)
       /\ (Contents = << 1, 2, 3, 4, 5 >> /\ Remove(2)) =>
                /\ ret' = Some(3)
                /\ deref(esize', vec', heap') = << 1, 2, 4, 5 >>
       /\ (Contents = << 1, 2, 4, 5 >> /\ pc' = "vec"
             /\ \E a \in Answers : Insert(0, 9, a)) =>
                deref(esize', vec', heap') = << 9, 1, 2, 4, 5 >>
       /\ (Contents = << 9, 1, 2, 4, 5 >> /\ Pop) =>
                /\ ret' = Some(5)
                /\ deref(esize', vec', heap') = << 9, 1, 2, 4 >>
      ]_vars

\* The end of the scenario: pop has returned 5 and [9,1,2,4] remains, which
\* the scenario client reaches only by push 1,2,3,4,5; remove(2);
\* insert(0, 9); pop().
C7_Witness ==
    /\ op = "pop"
    /\ ret = Some(5)
    /\ Contents = << 9, 1, 2, 4 >>
    /\ hand[3] = 1

\* C8: in every state of the array, for every index idx <= len and every
\* value the caller owns, insert(idx, elem) followed at once by remove(idx)
\* returns elem and leaves the length and the contents as they were before
\* the insert, also when the insert grows the buffer.
C8_InsertThenRemove ==
    pc = "vec" =>
        \A idx \in 0..vec.len, elem \in Owned, a \in HeapAddrs :
            LET r == insert(esize, vec, heap, idx, elem, a)
                q == remove(esize, r.vec, r.heap, idx)
            IN  /\ r.ok
                /\ q.ok
                /\ q.ret = Some(elem)
                /\ q.vec.len = vec.len
                /\ deref(esize, q.vec, q.heap) = Contents

\* A full array of two elements: an insert at index 1 grows the buffer from 2
\* to 4 slots, and the remove that follows returns the inserted value.
C8_Witness ==
    /\ pc = "vec"
    /\ esize # 0
    /\ vec.len = 2
    /\ vec.buf.cap = 2
    /\ \E elem \in Owned, a \in HeapAddrs :
          LET r == insert(esize, vec, heap, 1, elem, a)
              q == remove(esize, r.vec, r.heap, 1)
          IN  /\ r.vec.buf.cap = 4
              /\ r.vec.len = 3
              /\ q.ret = Some(elem)

\* C9: in every state of the array, for every value the caller owns,
\* push(elem) followed at once by pop() returns elem, and the length and the
\* contents are as they were before the push.
C9_PushThenPop ==
    pc = "vec" =>
        \A elem \in Owned, a \in HeapAddrs :
            LET r == push(esize, vec, heap, elem, a)
                q == pop(esize, r.vec, r.heap)
            IN  /\ r.ok
                /\ r.vec.len = vec.len + 1
                /\ q.ret = Some(elem)
                /\ q.vec.len = vec.len
                /\ deref(esize, q.vec, q.heap) = Contents

\* A full array of two elements: the push grows the buffer, and the pop that
\* follows returns the pushed value.
C9_Witness ==
    /\ pc = "vec"
    /\ esize # 0
    /\ vec.len = 2
    /\ vec.buf.cap = 2
    /\ \E elem \in Owned, a \in HeapAddrs :
          LET r == push(esize, vec, heap, elem, a)
              q == pop(esize, r.vec, r.heap)
          IN  /\ r.vec.buf.cap = 4
              /\ q.ret = Some(elem)
              /\ q.vec.len = 2

\* C10: for a zero-sized T the capacity is usize::MAX from creation on, the
\* length stays below it, so that grow is never invoked (it would panic), and
\* the allocator is never called, neither to allocate nor to release; the
\* owning iterator yields exactly as many elements as the array held, which
\* are the ones pushed into it.
C10_ZeroSizedNeverAllocates ==
    esize = 0 =>
        /\ heap = NoHeap
        /\ pc # "abort"
        /\ pc \in {"vec", "drain"} =>
              /\ vec.buf.cap = UsizeMax
              /\ vec.len < vec.buf.cap
        /\ pc = "iter" =>
              /\ it.buf.cap = UsizeMax
              /\ Len(outF) + Len(outB) + size_hint(esize, it.iter)[1] = Len(snap)
        /\ (pc = "iter" /\ op \in {"next", "next_back"} /\ ret = None) =>
              Len(outF) + Len(outB) = Len(snap)
        /\ Conserved

\* Three units pushed, the owning iterator has yielded three and then None.
C10_Witness ==
    /\ esize = 0
    /\ pc = "iter"
    /\ Len(snap) = 3
    /\ Len(outF) = 3
    /\ op = "next"
    /\ ret = None
    /\ hand[Unit] = 3

\* C11: insert with an index greater than the length and remove with an index
\* greater than or equal to the length panic on the bounds assertion before
\* anything is changed: the array (pointer, capacity, length), the heap and
\* the contents are those of before; the allocator is not called, nothing is
\* shifted and no element of the array is handed out or destroyed (insert's
\* own argument is destroyed by the unwinding).
C11_OutOfBoundsChangesNothing ==
    [][ /\ op' \in {"insert", "insert_oob", "insert_panic"} =>
           \A idx \in OobIdx, elem \in Owned, a \in Answers :
              InsertOob(idx, elem, a)
              =>  /\ op' = "insert_oob"
                  /\ pc' = "unwind"
                  /\ vec' = vec
                  /\ heap' = heap
                  /\ Contents' = Contents
                  /\ ret' = None
                  /\ destroyed' = << elem >>
        /\ op' \in {"remove", "remove_oob"} =>
           \A idx \in OobIdx :
              RemoveOob(idx)
              =>  /\ op' = "remove_oob"
                  /\ pc' = "unwind"
                  /\ vec' = vec
                  /\ heap' = heap
                  /\ Contents' = Contents
                  /\ ret' = None
                  /\ hand' = hand
                  /\ destroyed' = << >> ]_vars

\* An out-of-bounds insert has panicked on a full array of two elements.
C11_Witness ==
    /\ op = "insert_oob"
    /\ pc = "unwind"
    /\ esize = ESize
    /\ vec.len = 2
    /\ vec.len = vec.buf.cap
    /\ Len(destroyed) = 1

\* The range of the live iterator is empty.
Exhausted == it.iter.start = it.iter.end

\* C12: pop on an array of length 0, and next and next_back on an owning or a
\* drain iterator whose range is empty, return None without failing and
\* change nothing: length, capacity, pointer, heap and cursor are those of
\* before, nothing reaches the caller and nothing is destroyed; the same call
\* made again returns None again.
C12_NothingAvailableChangesNothing ==
    [][ /\ (Pop /\ vec.len = 0) =>
              /\ ret' = None
              /\ pc' = "vec"
              /\ vec' = vec
              /\ heap' = heap
              /\ hand' = hand
              /\ drops' = drops
              /\ pop(esize, vec', heap').ret = None
        /\ ((IterNext \/ IterNextBack \/ DrainNext \/ DrainNextBack)
                /\ Exhausted) =>
              /\ ret' = None
              /\ pc' = pc
              /\ it' = it
              /\ vec' = vec
              /\ heap' = heap
              /\ hand' = hand
              /\ drops' = drops
              /\ outF' = outF
              /\ outB' = outB
              /\ next(esize, it'.iter, heap').ret = None
              /\ next_back(esize, it'.iter, heap').ret = None ]_vars

\* A drain iterator over three elements, taken from both ends, has just
\* answered None to a call of next.
C12_Witness ==
    /\ pc = "drain"
    /\ op = "next"
    /\ ret = None
    /\ esize = ESize
    /\ Len(snap) = 3
    /\ Len(outF) = 2
    /\ Len(outB) = 1
    /\ Exhausted

\* The buffer of the array is a heap block that Drop for RawVec releases.
OwnsBlock(buf) == esize # 0 /\ buf.cap # 0

\* C13: destroying the array destroys every element of [0, len), each exactly
\* once (from the last to the first, read from the still live buffer), and
\* then releases the buffer; nothing happens after a release, so no element
\* is destroyed after it.  The length counts the elements pushed or inserted
\* and not yet returned by pop or remove (a successful push or insert adds
\* one, a pop or remove that returns an element takes one, a failed call
\* none), so the elements returned to the caller plus those the array
\* destroys are as many as were ever pushed or inserted.
C13_VecDropDestroysLiveThenReleases ==
    [][ /\ VecDrop =>
              /\ destroyed' = Reverse(Contents)
              /\ Len(destroyed') = vec.len
              /\ \A t \in DOMAIN drops :
                    drops'[t] = drops[t] + Count(Contents, t)
              /\ Count(destroyed', Uninit) = 0
              /\ Conserved'
              /\ hand' = hand
              /\ vec'.len = 0
              /\ heap'.nfree = heap.nfree + (IF OwnsBlock(vec.buf) THEN 1 ELSE 0)
              /\ heap'.nalloc = heap.nalloc
              /\ heap'.base = Null
              /\ pc' = "done"
        /\ heap.nfree = 0
        /\ heap'.nfree <= 1
        /\ op' \in {"push", "insert"} =>
              vec'.len = vec.len + (IF pc' = "vec" THEN 1 ELSE 0)
        /\ op' \in {"pop", "remove"} =>
              /\ vec'.len = vec.len - Len(ret')
              /\ hand' = Receive(ret')
        /\ pc = "vec" /\ pc' \in {"vec", "unwind", "abort"}
              /\ op' \notin {"push", "insert", "pop", "remove"} =>
              vec'.len = vec.len ]_vars

\* An array that grew to capacity 4 and gave one element back has been
\* destroyed with two elements in it, and its buffer released.
C13_Witness ==
    /\ op = "vec_drop"
    /\ pc = "done"
    /\ esize = ESize
    /\ Len(destroyed) = 2
    /\ heap.nalloc = 3
    /\ heap.nfree = 1
    /\ \E t \in DOMAIN hand : hand[t] = 1

\* The live values whose RawVec is the live heap block: the array unless it
\* was consumed or destroyed, the owning iterator while it lives.
BlockOwners ==
    {o \in {"vec", "iter"} :
        /\ heap.base # Null
        /\ \/ o = "vec" /\ pc \in {"vec", "drain", "unwind", "abort"}
                        /\ OwnsBlock(vec.buf) /\ vec.buf.ptr = heap.base
           \/ o = "iter" /\ pc = "iter"
                         /\ OwnsBlock(it.buf) /\ it.buf.ptr = heap.base}

\* C14: the buffer has exactly one owner at every moment and is released at
\* most once, and exactly once when its owner is gone: into_iter moves it to
\* the iterator and leaves the array without it, the array's destructor
\* cannot run afterwards; a drain iterator owns none and its drop releases
\* nothing; the only steps that release are the destruction of the array and
\* of the owning iterator, of a buffer of capacity > 0 that is theirs.
C14_OneOwnerOneRelease ==
    /\ [](/\ heap.nfree <= 1
          /\ heap.base # Null => Cardinality(BlockOwners) = 1
          /\ heap.base # Null => heap.nfree = 0
          /\ heap.base = Null /\ pc # "done" => heap.nalloc = 0
          /\ pc = "done" =>
                /\ heap.base = Null
                /\ heap.nfree = IF heap.nalloc > 0 THEN 1 ELSE 0
          /\ pc = "drain" => it.buf = NoBuf
          /\ pc \in {"iter", "done", "drain", "abort"} => ~ENABLED VecDrop)
    /\ [][ /\ IntoIter =>
                 /\ it'.buf = vec.buf
                 /\ vec'.buf = NoBuf
                 /\ heap' = heap
           /\ Drain => it'.buf = NoBuf /\ vec'.buf = vec.buf /\ heap' = heap
           /\ DrainDrop => heap' = heap /\ vec' = vec
           /\ (DrainNext \/ DrainNextBack \/ IterNext \/ IterNextBack) =>
                 heap' = heap
           /\ heap'.nfree # heap.nfree =>
                 /\ heap'.nfree = heap.nfree + 1
                 /\ \/ VecDrop /\ OwnsBlock(vec.buf) /\ vec.buf.ptr = heap.base
                    \/ IterDrop /\ OwnsBlock(it.buf) /\ it.buf.ptr = heap.base
                 /\ pc' = "done" ]_vars

\* An owning iterator that took over a buffer of capacity 2 has been dropped
\* before its end and the buffer released, once.
C14_Witness ==
    /\ op = "iter_drop"
    /\ pc = "done"
    /\ esize = ESize
    /\ vec = Moved
    /\ it.buf.cap = 2
    /\ Len(destroyed) = 1
    /\ heap.nalloc = 2
    /\ heap.nfree = 1
    /\ heap.base = Null

\* The number of elements the live iterator has yielded.
Yielded == Len(outF) + Len(outB)

\* C15: an owning or a drain iterator made over N elements answers, after j
\* elements were yielded by next and next_back in any order, a size_hint
\* whose lower bound and upper bound are both N - j, for a sized and for a
\* zero-sized T; the bounds are 0 exactly when the range is empty.
C15_SizeHintIsRemaining ==
    pc \in {"iter", "drain"} =>
        /\ size_hint(esize, it.iter) =
              << Len(snap) - Yielded, Some(Len(snap) - Yielded) >>
        /\ size_hint(esize, it.iter)[1] = 0 <=> Exhausted
        /\ size_hint(esize, it.iter)[1] = 0 <=> Yielded = Len(snap)

\* A drain iterator over three sized elements has yielded one from each end:
\* one remains.
C15_Witness ==
    /\ pc = "drain"
    /\ esize = ESize
    /\ Len(snap) = 3
    /\ Len(outF) = 1
    /\ Len(outB) = 1
    /\ size_hint(esize, it.iter) = << 1, Some(1) >>

\* C16: the slice view of the array has exactly len elements, whatever the
\* capacity and whatever the length was before: they are the slots [0, len)
\* of the buffer in order, none of them a slot never written; after a drain
\* the view is empty although the capacity stays.  The element at position i
\* of the view is the one remove(i) returns and the last one is the one pop
\* returns, so that a value written through the mutable view at position i
\* replaces the element there, leaves the others and the length alone, and is
\* what remove(i), or pop if it is the last, then returns.
C16_SliceViewIsOccupiedPrefix ==
    /\ [](pc \in {"vec", "drain", "unwind"} =>
            /\ Len(Contents) = vec.len
            /\ Count(Contents, Uninit) = 0
            /\ esize # 0 => Contents = SubSeq(heap.mem, 1, vec.len)
            /\ \A i \in 0..(vec.len - 1) :
                  remove(esize, vec, heap, i).ret = Some(Contents[i + 1])
            /\ vec.len > 0 =>
                  pop(esize, vec, heap).ret = Some(Contents[vec.len]))
    /\ [][ /\ Drain =>
                 /\ Contents' = << >>
                 /\ vec'.buf = vec.buf
           /\ op' = "write" =>
                 \A i \in 0..(vec.len - 1), elem \in Owned :
                    Write(i, elem) =>
                       /\ Contents' = [Contents EXCEPT ![i + 1] = elem]
                       /\ ret' = Some(Contents[i + 1])
                       /\ vec' = vec
                       /\ remove(esize, vec', heap', i).ret = Some(elem)
                       /\ i = vec.len - 1 =>
                             pop(esize, vec', heap').ret = Some(elem)
                       /\ esize # 0 => hand'[elem] = 0 ]_vars

\* A value was written through the mutable view at position 0 of an array of
\* length 2 and capacity 4, in the place of another one.
C16_Witness ==
    /\ op = "write"
    /\ pc = "vec"
    /\ esize = ESize
    /\ vec.len = 2
    /\ vec.buf.cap = 4
    /\ ret # Some(Contents[1])
    /\ hand[Contents[1]] = 0

\* C17: when a drain iterator is dropped, however many elements it yielded
\* and from whichever ends, the array has length 0 and still has the buffer
\* it had (same pointer, same capacity, not released), and it works as an
\* empty array: a push of x that returns makes the length 1, without growing
\* if the capacity was not 0, and the pop that follows returns x and leaves
\* the length 0.
C17_ArrayUsableAfterDrain ==
    [][ DrainDrop =>
          /\ pc' = "vec"
          /\ vec'.len = 0
          /\ vec'.buf = vec.buf
          /\ vec'.buf.cap >= Len(snap)
          /\ Contents' = << >>
          /\ heap'.nfree = 0
          /\ OwnsBlock(vec'.buf) =>
                /\ heap'.base = vec'.buf.ptr
                /\ Len(heap'.mem) = vec'.buf.cap
          /\ Len(snap) = Yielded + Len(destroyed')
          /\ \A x \in Owned', a \in Answers' :
                LET r == push(esize, vec', heap', x, a)
                    q == pop(esize, r.vec, r.heap)
                IN  /\ r.ok <=> (vec'.buf.cap # 0 \/ a # Null)
                    /\ r.ok =>
                          /\ r.vec.len = 1
                          /\ vec'.buf.cap # 0 => r.vec.buf = vec'.buf
                          /\ deref(esize, r.vec, r.heap) = << x >>
                          /\ q.ret = Some(x)
                          /\ q.vec.len = 0 ]_vars

\* A drain iterator over three elements was dropped after it had yielded the
\* first and the last: the array is empty with its capacity of 4.
C17_Witness ==
    /\ op = "drain_drop"
    /\ pc = "vec"
    /\ esize = ESize
    /\ Len(snap) = 3
    /\ Len(outF) = 1
    /\ Len(outB) = 1
    /\ Len(destroyed) = 1
    /\ vec.len = 0
    /\ vec.buf.cap = 4
    /\ Owned # {}

\* The powers of two that fit a machine word, and the smallest one >= n.
Pow2 == {2 ^ k : k \in 0..(WordBits - 1)}
CeilPow2(n) == CHOOSE p \in Pow2 : p >= n /\ \A q \in Pow2 : q >= n => p <= q

\* A new array after n pushes, the allocator answering every request.
RECURSIVE Pushes(_, _, _)
Pushes(es, al, n) ==
    IF n = 0 THEN [vec |-> MyVec_new(es, al), heap |-> NoHeap]
    ELSE LET s == Pushes(es, al, n - 1)
         IN  push(es, s.vec, s.heap, 1, CHOOSE a \in HeapAddrs : TRUE)

\* After n pushes a new sized array has length n and the smallest power of
\* two >= n as its capacity.
PushesGivePow2 ==
    \A n \in 1..(2 * MaxElems + 2), al \in Aligns(ESize) :
        /\ Pushes(ESize, al, n).vec.len = n
        /\ Pushes(ESize, al, n).vec.buf.cap = CeilPow2(n)

\* The capacity of a sized array changes on this step, the move of the
\* buffer by into_iter aside.
CapChanges == esize # 0 /\ ~IntoIter /\ vec'.buf.cap # vec.buf.cap

\* C18: for a sized T the capacity changes only in a push or an insert that
\* finds len = cap, and then from 0 to exactly 1 and otherwise to exactly
\* twice what it was, with one call to the allocator for a block of that
\* many elements; a push or insert that finds len < cap, and every other
\* operation, leaves the capacity and the block alone.  The capacity is
\* always 0 or a power of two.  A push that finds the capacity the smallest
\* power of two >= len (or both 0) leaves it the smallest power of two >=
\* len + 1, and so a new array after n >= 1 pushes has the smallest power of
\* two >= n as its capacity.
C18_GrowthDoubles ==
    [][ /\ CapChanges =>
              /\ vec.len = vec.buf.cap
              /\ \E elem \in Owned, a \in HeapAddrs :
                    \/ Push(elem, a)
                    \/ \E idx \in 0..vec.len : Insert(idx, elem, a)
              /\ vec'.buf.cap = IF vec.buf.cap = 0 THEN 1 ELSE 2 * vec.buf.cap
              /\ vec'.len = vec.len + 1
              /\ heap'.nalloc = heap.nalloc + 1
              /\ Len(heap'.mem) = vec'.buf.cap
        /\ esize # 0 /\ pc = "vec" /\ pc' = "vec" /\ vec'.len = vec.len + 1 =>
              (vec.len = vec.buf.cap <=> CapChanges)
        /\ esize # 0 /\ ~CapChanges => heap'.nalloc = heap.nalloc
        /\ esize # 0 => vec'.buf.cap \in Pow2 \cup {0}
        /\ op' = "push" =>
              \A elem \in Owned, a \in HeapAddrs :
                 /\ Push(elem, a)
                 /\ esize # 0
                 /\ vec.buf.cap = IF vec.len = 0 THEN 0 ELSE CeilPow2(vec.len)
                 => vec'.buf.cap = CeilPow2(vec'.len)
        /\ PushesGivePow2 ]_vars

\* The third allocation: an insert found an array of length 2 and capacity
\* 2 and left it with capacity 4.
C18_Witness ==
    /\ op = "insert"
    /\ pc = "vec"
    /\ esize = ESize
    /\ vec.len = 3
    /\ vec.buf.cap = 4
    /\ heap.nalloc = 3
    /\ Len(heap.mem) = 4

\* The byte size of the block that a growth of buf asks for, as a number
\* (not reduced to the machine word).
GrowBytes(es, buf) == es * (IF buf.cap = 0 THEN 1 ELSE 2 * buf.cap)

\* C19: a push or an insert that finds a sized array full and whose growth
\* would need more than isize::MAX bytes panics, whatever the allocator would
\* have answered: the allocator is not called, and pointer, capacity, length
\* and heap are those of before (the argument is destroyed by the unwinding,
\* which goes on to destroy the array and release the block it had).  A
\* growth within the limit succeeds when the allocator answers.  Neither the
\* doubled capacity nor the byte size wraps around: the buffer never exceeds
\* isize::MAX bytes, so that 2 * cap and the byte size asked for fit the
\* machine word and the capacity asked for is the doubled one.
C19_OversizedGrowthPanics ==
    [][ esize # 0 =>
          /\ esize * vec.buf.cap <= IsizeMax
          /\ esize * vec'.buf.cap <= IsizeMax
          /\ 2 * vec.buf.cap <= UsizeMax
          /\ GrowBytes(esize, vec.buf) <= UsizeMax
          /\ new_cap(vec.buf) = IF vec.buf.cap = 0 THEN 1 ELSE 2 * vec.buf.cap
          /\ \A elem \in Owned, a \in HeapAddrs \cup {Null}, idx \in 0..vec.len :
                /\ Push(elem, a) \/ Insert(idx, elem, a)
                /\ vec.len = vec.buf.cap
                => IF GrowBytes(esize, vec.buf) > IsizeMax
                   THEN /\ op' \in {"push_panic", "insert_panic"}
                        /\ pc' = "unwind"
                        /\ vec' = vec
                        /\ heap' = heap
                        /\ destroyed' = << elem >>
                   ELSE IF a = Null
                   THEN /\ pc' = "abort"
                        /\ vec' = vec
                        /\ heap' = heap
                   ELSE /\ pc' = "vec"
                        /\ vec'.buf.cap = new_cap(vec.buf)
                        /\ vec'.buf.ptr = a
                        /\ heap'.nalloc = heap.nalloc + 1
                        /\ Len(heap'.mem) = vec'.buf.cap
          /\ pc = "unwind" /\ VecDrop =>
                /\ Len(destroyed') = vec.len
                /\ heap'.nfree = IF vec.buf.cap # 0 THEN 1 ELSE 0 ]_vars

\* A push found a full array of 4 elements of 3/32 of the address space each
\* and panicked instead of growing to 8.
C19_Witness ==
    /\ op = "push_panic"
    /\ pc = "unwind"
    /\ esize = 3 * 2 ^ (WordBits - 5)
    /\ vec.len = 4
    /\ vec.buf.cap = 4
    /\ heap.nalloc = 3
    /\ esize * 4 <= IsizeMax
    /\ esize * 8 > IsizeMax
    /\ esize * 8 <= UsizeMax

\* The allocation of the buffer: where the block is, how many slots it has
\* and how often the allocator was called.
Allocation == << heap.base, Len(heap.mem), heap.nalloc, heap.nfree >>

\* C20: the capacity of the array never decreases (into_iter, which consumes
\* the array, hands the buffer on with the capacity it has).  pop, remove and
\* drain leave the RawVec (pointer and capacity) and the allocation as they
\* are and never lengthen the array; pop and drain do not write to the
\* buffer at all.  A pop that returns an element leaves the elements before
\* the last, a remove leaves the elements other than the removed one, in the
\* order they had.
C20_CapacityKeptByRemovals ==
    [][ /\ IF IntoIter
           THEN it'.buf = vec.buf
           ELSE vec'.buf.cap >= vec.buf.cap
        /\ op' \in {"pop", "drain"} /\ (Pop \/ Drain) =>
              /\ vec'.buf = vec.buf
              /\ Allocation' = Allocation
              /\ vec'.len <= vec.len
              /\ heap' = heap
        /\ op' = "pop" /\ Pop /\ vec.len > 0 =>
              /\ ret' = Some(Contents[vec.len])
              /\ Contents' = SubSeq(Contents, 1, vec.len - 1)
        /\ op' \in {"remove", "remove_oob"} =>
              \A idx \in 0..(vec.len - 1) :
                 Remove(idx) =>
                    /\ vec'.buf = vec.buf
                    /\ Allocation' = Allocation
                    /\ vec'.len <= vec.len
                    /\ ret' = Some(Contents[idx + 1])
                    /\ Contents' = DeleteAt(Contents, idx + 1)
        /\ op' = "drain" /\ Drain =>
              /\ Contents' = << >>
              /\ Pending' = Contents ]_vars

\* A remove took an element before the last of three of an array of capacity 4,
\* which keeps its capacity and its block.
C20_Witness ==
    /\ op = "remove"
    /\ pc = "vec"
    /\ esize = ESize
    /\ vec.len = 2
    /\ vec.buf.cap = 4
    /\ Len(heap.mem) = 4
    /\ heap.nalloc = 3
    /\ heap.mem[2] = heap.mem[3]
    /\ ret # None

====
